---- MODULE Spec2Model ----
(***************************************************************************)
(* A model of sc3tools' SC3 script codec (src/src/sc3.rs).                 *)
(*                                                                         *)
(* Two state machines share this module:                                   *)
(*   Spec       the Script container: a file on disk, the container's      *)
(*              reader/writer (which share one OS file cursor because both *)
(*              come from File::try_clone, and of which the writer is a    *)
(*              BufWriter), its StringIndex, and the operations open,      *)
(*              read_string, replace_strings and drop.                     *)
(*   CodecSpec  the token codec: StringToken::decode / encode, Expr::parse *)
(*              and the Sc3StringIter iterator, applied to byte buffers    *)
(*              and tokens drawn from bounded sets.                        *)
(* Bytes are naturals 0..255, files and buffers are sequences of bytes.    *)
(* File offsets are 0-based as in the code; sequences are 1-based.         *)
(***************************************************************************)
EXTENDS Integers, Sequences, FiniteSets, TLC

VARIABLES
    file,       \* the script file's bytes on disk
    cursor,     \* the OS file offset shared by reader and writer (try_clone)
    wbuf,       \* bytes written to the BufWriter and not yet flushed
    script,     \* the Script value: open flag, string_index_offset, string_index
    orig,       \* the file as it was before the first open (for frame properties)
    last,       \* the last container operation, its inputs, locals and result
    calls,      \* number of replace_strings calls made so far
    buf,        \* codec: the String Buffer being iterated / decoded
    remaining,  \* codec: Sc3StringIter.remaining
    items,      \* codec: the items next() has returned so far, in order
    tok,        \* codec: the StringToken being encoded
    follow,     \* codec: bytes placed after the encoded token before decoding
    enc,        \* codec: the sink after tok.encode(sink)
    dec,        \* codec: the result of StringToken::decode
    ex,         \* codec: the result of Expr::parse on the buffer
    iter,       \* index: StringIndexIter.pos and what next() has returned so far
    got,        \* index: the last StringIndex::get call, its argument and result
    games,      \* tool: the game definitions of gamedefs.json with their resources
    startup,    \* tool: what build_gamedefs_from_json came to: GameDefs or a panic
    eq,         \* tool: the last call of equivalent, its arguments and result
    txt,        \* tool: the lines of the text file given to replace_text
    run,        \* tool: the replace_text call made, its arguments and result
    pc          \* steps: where a replace_strings call taken step by step stands

vars == <<file, cursor, wbuf, script, orig, last, calls,
          buf, remaining, items, tok, follow, enc, dec, ex, iter, got,
          games, startup, eq, txt, run, pc>>

containerVars == <<file, cursor, wbuf, script, orig, last, calls>>
codecVars == <<buf, remaining, items, tok, follow, enc, dec, ex>>
indexVars == <<iter, got>>
toolVars == <<games, startup, eq, txt, run>>
stepVars == <<pc>>

----------------------------------------------------------------------------
(* Bounds of the model.                                                    *)

\* largest number of string slots in a modelled script file
MaxSlots == 2
\* largest number of replace_strings calls in one behaviour
MaxCalls == 2

----------------------------------------------------------------------------
(* Byte-level helpers.                                                     *)

Max(a, b) == IF a > b THEN a ELSE b

RECURSIVE Flatten(_)
\* the concatenation of a sequence of byte sequences
Flatten(ss) == IF ss = <<>> THEN <<>> ELSE Head(ss) \o Flatten(Tail(ss))

RECURSIVE SumLen(_)
SumLen(ss) == IF ss = <<>> THEN 0 ELSE Len(Head(ss)) + SumLen(Tail(ss))

\* A u32 value.  The code's u32 additions and `as u32` casts wrap at 2^32; the
\* model checker's integers end at 2^31 - 1, and every offset of the modelled
\* files is far below that, so no modelled addition can wrap.
U32(v) == v

\* a little-endian u32
LE32(v) == <<v % 256, (v \div 256) % 256, (v \div 65536) % 256,
             (v \div 16777216) % 256>>

\* nom le_u32 on the 4 bytes of s that start at 0-based offset p
ReadLE32(s, p) == s[p + 1] + 256 * s[p + 2] + 65536 * s[p + 3] + 16777216 * s[p + 4]

\* File::write of `bytes` at file offset pos: overwrites in place, extends the
\* file when it runs past the end (a gap left by a seek past the end reads 0),
\* and never truncates.
WriteAt(f, pos, bytes) ==
    IF bytes = <<>> THEN f
    ELSE [i \in 1..Max(Len(f), pos + Len(bytes)) |->
            IF i > pos /\ i <= pos + Len(bytes) THEN bytes[i - pos]
            ELSE IF i <= Len(f) THEN f[i] ELSE 0]

----------------------------------------------------------------------------
(* StringIndex and StringHandle.                                           *)

NoHandle == [some |-> FALSE, start |-> 0, end |-> 0]

\* StringIndex::count
Count(si) == Len(si.offsets)

\* (a variant of Get whose range always ends at eof)
GetToEof(si, index) ==
    IF index < Len(si.offsets)
    THEN [some |-> TRUE, start |-> si.offsets[index + 1], end |-> si.eof]
    ELSE NoHandle

\* StringIndex::get(index), index 0-based
Get(si, index) ==
    IF index < Len(si.offsets)
    THEN [some |-> TRUE,
          start |-> si.offsets[index + 1],
          end |-> IF index < Len(si.offsets) - 1
                  THEN si.offsets[index + 2] ELSE si.eof]
    ELSE NoHandle

\* StringHandle::size: Range<u32>::len, 0 for an empty or reversed range
HandleSize(h) == IF h.end > h.start THEN h.end - h.start ELSE 0

----------------------------------------------------------------------------
(* Script::read_string.                                                    *)

\* The reader seeks the shared cursor to handle.start (dropping its buffer) and
\* read_exact()s size bytes.  A BufReader fills its buffer with one read of up
\* to its capacity, which for the files modelled here (all far shorter than the
\* capacity) is everything up to end-of-file; a zero-size read_exact reads
\* nothing.  Result: ok, the bytes, and where the shared cursor is left.
ReadString(f, h) ==
    LET n == HandleSize(h) IN
    IF n = 0 THEN [ok |-> TRUE, bytes |-> <<>>, cursor |-> h.start]
    ELSE IF h.start + n <= Len(f)
         THEN [ok |-> TRUE, bytes |-> SubSeq(f, h.start + 1, h.start + n),
               cursor |-> Len(f)]
         ELSE [ok |-> FALSE, bytes |-> <<>>, cursor |-> Max(h.start, Len(f))]

----------------------------------------------------------------------------
(* The modelled script files.                                              *)

\* the 4-byte magic tag "SC3\0"
Magic == <<83, 67, 51, 0>>

\* what slot k (1-based) of a modelled file holds: token bytes ending in the
\* Terminator 0xFF, of lengths 2, 1, 2, 1, ... and distinct in neighbours
SlotContent(k) == IF k % 2 = 1 THEN <<k, 255>> ELSE <<255>>

\* what replace_strings may be asked to put in a slot: a buffer shorter and a
\* buffer longer than the slots of the modelled files
NewContents == {<<>>, <<20, 30, 255>>}

\* layouts: bytes between header and table, bytes of the table range that
\* follow its last whole u32, bytes between the table and the heap
Layouts1 == [pre |-> <<>>, pad |-> <<>>, gap |-> <<>>]

Layouts == {[pre |-> <<>>, pad |-> <<>>, gap |-> <<>>],
            [pre |-> <<9>>, pad |-> <<7, 7>>, gap |-> <<8>>]}

RECURSIVE SlotOffsets(_, _)
\* the offsets of consecutive slots laid out from `start`
SlotOffsets(start, slots) ==
    IF slots = <<>> THEN <<>>
    ELSE <<start>> \o SlotOffsets(start + Len(Head(slots)), Tail(slots))

RECURSIVE TableBytes(_)
\* the offset table as stored: one little-endian u32 per offset
TableBytes(offsets) ==
    IF offsets = <<>> THEN <<>> ELSE LE32(Head(offsets)) \o TableBytes(Tail(offsets))

\* a well-formed SC3 file: header, table, heap of consecutive slots to EOF
MakeFile(lay, slots) ==
    LET tstart == 12 + Len(lay.pre)
        tend == tstart + 4 * Len(slots) + Len(lay.pad)
        heap == tend + Len(lay.gap)
    IN  Magic \o LE32(tstart) \o LE32(tend) \o lay.pre
        \o TableBytes(SlotOffsets(heap, slots)) \o lay.pad \o lay.gap
        \o Flatten(slots)

SeqsUpTo(S, n) == UNION {[1..k -> S] : k \in 0..n}

Files == {MakeFile(lay, [k \in 1..n |-> SlotContent(k)]) : lay \in Layouts, n \in 0..MaxSlots}

----------------------------------------------------------------------------
(* Script::open.                                                           *)

Closed == [open |-> FALSE, string_index_offset |-> 0,
           string_index |-> [offsets |-> <<>>, eof |-> 0]]

\* nom many0(le_u32) over the table bytes: as many whole u32 as there are;
\* trailing bytes that do not make a u32 are left over and the parse succeeds
ReadStrOffsets(b) == [k \in 1..(Len(b) \div 4) |-> ReadLE32(b, 4 * (k - 1))]

\* The result of Script::open on file f: err is "" on success.
OpenResult(f) ==
    IF Len(f) < 12 THEN [err |-> "Io", script |-> Closed]
    ELSE IF SubSeq(f, 1, 4) # Magic THEN [err |-> "UnrecognizedFormat", script |-> Closed]
    ELSE LET start == ReadLE32(f, 4)
             end == ReadLE32(f, 8)
             len == IF end > start THEN end - start ELSE 0
         IN  IF len > 0 /\ start + len > Len(f) THEN [err |-> "Io", script |-> Closed]
             ELSE [err |-> "",
                   script |-> [open |-> TRUE,
                               string_index_offset |-> start,
                               string_index |->
                                   [offsets |-> ReadStrOffsets(SubSeq(f, start + 1, start + len)),
                                    eof |-> U32(Len(f))]]]

NoChanges == <<>>

NoOp == [op |-> "none", ok |-> TRUE, err |-> "", changes |-> NoChanges, lines |-> <<>>,
         offsets |-> <<>>, before |-> <<>>, idx |-> 0, bytes |-> <<>>,
         replaced |-> FALSE]

\* Script::open(file): on success the reader's last seek (SeekFrom::End(0))
\* leaves the shared cursor at end-of-file and the new BufWriter is empty.
Open ==
    /\ ~script.open
    /\ last.op = "none"
    /\ LET r == OpenResult(file) IN
       /\ script' = r.script
       /\ cursor' = IF r.err = "" THEN Len(file) ELSE cursor
       /\ last' = [NoOp EXCEPT !.op = "open", !.ok = (r.err = ""), !.err = r.err,
                               !.before = file]
    /\ wbuf' = <<>>
    /\ UNCHANGED <<file, orig, calls>>

----------------------------------------------------------------------------
(* Script::read_string through the public index.                           *)

\* string_index.get(i) followed by read_string(handle)
ReadSlot(i) ==
    /\ script.open
    /\ Get(script.string_index, i).some
    /\ LET r == ReadString(file, Get(script.string_index, i)) IN
       /\ cursor' = r.cursor
       /\ last' = [NoOp EXCEPT !.op = "read", !.ok = r.ok,
                               !.err = IF r.ok THEN "" ELSE "Io",
                               !.idx = i, !.bytes = r.bytes, !.before = file]
    /\ UNCHANGED <<file, wbuf, script, orig, calls>>

----------------------------------------------------------------------------
(* Script::replace_strings.                                                *)

RECURSIVE ScanOffsetsAfterAdd(_, _)
\* (a variant of ScanOffsets that yields the accumulator after the addition)
ScanOffsetsAfterAdd(heap_start, lines) ==
    IF lines = <<>> THEN <<>>
    ELSE <<U32(heap_start + Len(Head(lines)))>>
         \o ScanOffsetsAfterAdd(U32(heap_start + Len(Head(lines))), Tail(lines))

RECURSIVE ScanOffsets(_, _)
\* lines.iter().scan(heap_start, |acc, x| { let o = *acc; *acc += len; o })
\* with the u32 addition wrapping as in a release build
ScanOffsets(heap_start, lines) ==
    IF lines = <<>> THEN <<>>
    ELSE <<heap_start>> \o ScanOffsets(U32(heap_start + Len(Head(lines))), Tail(lines))

RECURSIVE WriteOffsetsWide(_)
\* (a variant of WriteOffsets that writes each offset as 8 bytes)
WriteOffsetsWide(offsets) ==
    IF offsets = <<>> THEN <<>>
    ELSE LE32(Head(offsets)) \o <<0, 0, 0, 0>> \o WriteOffsetsWide(Tail(offsets))

RECURSIVE WriteOffsets(_)
\* for offset in offsets { writer.write_u32::<LittleEndian>(offset)? }
WriteOffsets(offsets) ==
    IF offsets = <<>> THEN <<>> ELSE LE32(Head(offsets)) \o WriteOffsets(Tail(offsets))

\* the change sets: maps from slot indices to bytes; for a container of fewer
\* than MaxSlots slots some of the keys are indices of no slot
ChangeSets == UNION {[D -> NewContents] : D \in SUBSET (0..(MaxSlots - 1))}

SetMin(S) == CHOOSE x \in S : \A y \in S : x <= y
SetMax(S) == CHOOSE x \in S : \A y \in S : x >= y

\* replace_strings(changes) of the container scr on file f, with the shared
\* cursor at cur and wb pending in the BufWriter: whether it returned Ok,
\* whether it wrote, the file, cursor and pending bytes it leaves, and its
\* locals `lines` and `offsets`
ReplaceStringsResult(f, cur, wb, scr, changes) ==
    LET si == scr.string_index
        n == Count(si)
        \* the slots not in `changes` are read from the file, in slot order
        readIdx == {i \in 0..(n - 1) : i \notin DOMAIN changes}
        rd(i) == ReadString(f, Get(si, i))
        failIdx == {i \in readIdx : ~rd(i).ok}
        lines == [k \in 1..n |-> IF (k - 1) \in DOMAIN changes
                                 THEN changes[k - 1] ELSE rd(k - 1).bytes]
        afterReads == IF failIdx # {} THEN rd(SetMin(failIdx)).cursor
                      ELSE IF readIdx = {} THEN cur
                      ELSE rd(SetMax(readIdx)).cursor
        unwritten == [ok |-> TRUE, written |-> FALSE, file |-> f, cursor |-> cur,
                      wbuf |-> wb, lines |-> <<>>, offsets |-> <<>>]
    IN  IF failIdx # {}
        THEN \* collect::<Result<..>>()? returns the first read error
             [unwritten EXCEPT !.ok = FALSE, !.cursor = afterReads]
        ELSE IF n = 0
        THEN \* string_index.get(0) is None: nothing is written
             unwritten
        ELSE LET heap_start == Get(si, 0).start
                 offsets == ScanOffsets(heap_start, lines)
                 \* writer.seek(heap_start) first flushes what the BufWriter
                 \* still holds, at the shared cursor
                 f1 == WriteAt(f, afterReads, wb)
                 \* the lines are buffered, and flushed at heap_start by
                 \* writer.seek(string_index_offset)
                 f2 == WriteAt(f1, heap_start, Flatten(lines))
             IN  [ok |-> TRUE, written |-> TRUE, file |-> f2,
                  cursor |-> scr.string_index_offset,
                  \* the offsets stay in the BufWriter until the next flush
                  wbuf |-> WriteOffsets(offsets),
                  lines |-> lines, offsets |-> offsets]

\* Script::replace_strings; self.string_index is not assigned
ReplaceStrings(changes) ==
    /\ script.open
    /\ calls < MaxCalls
    /\ calls' = calls + 1
    /\ \E r \in {ReplaceStringsResult(file, cursor, wbuf, script, changes)} :
       /\ file' = r.file
       /\ cursor' = r.cursor
       /\ wbuf' = r.wbuf
       /\ last' = [NoOp EXCEPT !.op = "replace", !.changes = changes, !.before = file,
                               !.ok = r.ok, !.err = IF r.ok THEN "" ELSE "Io",
                               !.lines = r.lines, !.offsets = r.offsets]
    /\ UNCHANGED <<script, orig>>

----------------------------------------------------------------------------
(* Dropping the Script.                                                    *)

\* BufWriter's Drop flushes its buffer at the shared cursor; the files close.
Close ==
    /\ script.open
    /\ file' = WriteAt(file, cursor, wbuf)
    /\ cursor' = IF wbuf = <<>> THEN cursor ELSE cursor + Len(wbuf)
    /\ wbuf' = <<>>
    /\ script' = Closed
    \* (recorded: whether this drop directly follows a successful
    \* replace_strings, and the offsets that call computed)
    /\ last' = [NoOp EXCEPT !.op = "close", !.before = file,
                            !.offsets = last.offsets,
                            !.replaced = (last.op = "replace" /\ last.ok)]
    /\ UNCHANGED <<orig, calls>>

----------------------------------------------------------------------------
(* StringToken, PresentAction, Expr.                                       *)

\* A StringToken value: its variant, the PresentAction of Present, the u16 of
\* FontSize/MarginTop/MarginLeft/HardcodedValue, and the payload sequence: the
\* Expr bytes of Color/Eval, the 16-bit code units of Text.
Tok(tag, action, val, data) == [tag |-> tag, action |-> action, val |-> val, data |-> data]

Simple(tag) == Tok(tag, "", 0, <<>>)
Present(action) == Tok("Present", action, 0, <<>>)
WithU16(tag, val) == Tok(tag, "", val, <<>>)
WithExpr(tag, bytes) == Tok(tag, "", 0, bytes)
Text(chars) == Tok("Text", "", 0, chars)

\* no token (a failed decode carries none)
NoTok == Tok("", "", 0, <<>>)

\* (a variant of ConstLen without the final + 1)
ConstLenWithoutOne(b) == ((b \div 32) * 32 - 128) \div 32

\* Expr::const_len: (((b & 0xE0) - 0x80) / 0x20 + 1), for b >= 0x80
ConstLen(b) == (((b \div 32) * 32 - 128) \div 32) + 1

RECURSIVE ExprEnd(_, _)
\* many_till(Self::token, tag(&[0x00])) from 0-based position p of i: the
\* number of bytes of i the whole expression takes, terminator included, or -1
\* when the input ends first.  At each step the terminator is tried first; if
\* the byte is not 0x00 one token is taken: 2 bytes when the byte is below
\* 0x80, const_len(byte) bytes and one more otherwise.
ExprEnd(i, p) ==
    IF p >= Len(i) THEN -1
    ELSE IF i[p + 1] = 0 THEN p + 1
    ELSE LET b == i[p + 1]
             n == IF b >= 128 THEN ConstLen(b) + 1 ELSE 2
         IN  IF p + n <= Len(i) THEN ExprEnd(i, p + n) ELSE -1

\* Expr::parse: the recognized span and the rest
ExprParse(i) ==
    LET e == ExprEnd(i, 0) IN
    IF e < 0 THEN [ok |-> FALSE, span |-> <<>>, rem |-> i]
    ELSE [ok |-> TRUE, span |-> SubSeq(i, 1, e), rem |-> SubSeq(i, e + 1, Len(i))]

----------------------------------------------------------------------------
(* StringToken::decode.                                                    *)

DecodeOk(rem, tk) == [ok |-> TRUE, rem |-> rem, tk |-> tk, err |-> "", op |-> 0]

\* Error::ExpectedMoreInput
ExpectedMoreInput == [ok |-> FALSE, rem |-> <<>>, tk |-> NoTok,
                      err |-> "ExpectedMoreInput", op |-> 0]

\* (a variant of UnrecognizedInstr that reports the failure as parse() reports
\* its failures, losing the byte)
UnrecognizedInstrAsMoreInput(op) == ExpectedMoreInput

\* Error::UnrecognizedInstr(op)
UnrecognizedInstr(op) == [ok |-> FALSE, rem |-> <<>>, tk |-> NoTok,
                          err |-> "UnrecognizedInstr", op |-> op]

\* nom be_u16 on two bytes
BEu16(hi, lo) == hi * 256 + lo

\* parse(i, be_u16, f)
ParseU16(i, tag) ==
    IF Len(i) < 2 THEN ExpectedMoreInput
    ELSE DecodeOk(SubSeq(i, 3, Len(i)), WithU16(tag, BEu16(i[1], i[2])))

\* parse(i, Expr::parse, f)
ParseExpr(i, tag) ==
    LET r == ExprParse(i) IN
    IF r.ok THEN DecodeOk(r.rem, WithExpr(tag, r.span)) ELSE ExpectedMoreInput

RECURSIVE TextEnd(_, _)
\* many_till(be_u16, verify(peek(be_u8), |b| b < 0x80 || b == 0xFF)) from
\* 0-based position p: the number of bytes the code units take, or -1 when the
\* input ends before a byte below 0x80 or equal to 0xFF is peeked
TextEnd(i, p) ==
    IF p < Len(i) /\ (i[p + 1] < 128 \/ i[p + 1] = 255) THEN p
    ELSE IF p + 2 <= Len(i) THEN TextEnd(i, p + 2)
    ELSE -1

\* parse(i, text, |chars| StringToken::Text(chars.into()))
ParseText(i) ==
    LET e == TextEnd(i, 0) IN
    IF e < 0 THEN ExpectedMoreInput
    ELSE DecodeOk(SubSeq(i, e + 1, Len(i)),
                  Text([k \in 1..(e \div 2) |-> BEu16(i[2 * k - 1], i[2 * k])]))

\* StringToken::decode(i)
Decode(i) ==
    IF i = <<>> THEN ExpectedMoreInput       \* peek_op fails
    ELSE LET op == i[1]
             \* peek_op consumes the byte only when it is an opcode
             r == IF op < 128 \/ op = 255 THEN Tail(i) ELSE i
         IN  CASE op = 0 -> DecodeOk(r, Simple("LineBreak"))
               [] op = 1 -> DecodeOk(r, Simple("NameStart"))
               [] op = 2 -> DecodeOk(r, Simple("LineStart"))
               [] op = 3 -> DecodeOk(r, Present("None"))
               [] op = 4 -> ParseExpr(r, "Color")
               [] op = 8 -> DecodeOk(r, Present("ResetAlignment"))
               [] op = 9 -> DecodeOk(r, Simple("RubyBaseStart"))
               [] op = 10 -> DecodeOk(r, Simple("RubyTextStart"))
               [] op = 11 -> DecodeOk(r, Simple("RubyTextEnd"))
               [] op = 12 -> ParseU16(r, "FontSize")
               [] op = 14 -> DecodeOk(r, Simple("Parallel"))
               [] op = 15 -> DecodeOk(r, Simple("Center"))
               [] op = 17 -> ParseU16(r, "MarginTop")
               [] op = 18 -> ParseU16(r, "MarginLeft")
               [] op = 19 -> ParseU16(r, "HardcodedValue")
               [] op = 21 -> ParseExpr(r, "Eval")
               [] op = 24 -> DecodeOk(r, Present("Unkown_0x18"))
               [] op = 25 -> DecodeOk(r, Simple("AutoForward"))
               [] op = 26 -> DecodeOk(r, Simple("AutoForward_1A"))
               [] op = 30 -> DecodeOk(r, Simple("RubyCenterPerChar"))
               [] op = 255 -> DecodeOk(r, Simple("Terminator"))
               [] OTHER -> IF op <= 127 THEN UnrecognizedInstr(op) ELSE ParseText(r)

----------------------------------------------------------------------------
(* StringToken::encode.                                                    *)

\* (a variant of BE16 that writes the low byte first)
LE16(v) == <<v % 256, v \div 256>>

\* write_u16::<BigEndian> / u16::to_be_bytes
BE16(v) == <<v \div 256, v % 256>>

RECURSIVE WriteUnits(_)
\* for code in chars.iter() { sink.write_u16::<BigEndian>(*code)? }
WriteUnits(chars) ==
    IF chars = <<>> THEN <<>> ELSE BE16(Head(chars)) \o WriteUnits(Tail(chars))

\* the opcode byte of a token that is not Text
OpCode(t) ==
    CASE t.tag = "LineBreak" -> 0
      [] t.tag = "NameStart" -> 1
      [] t.tag = "LineStart" -> 2
      [] t.tag = "Present" /\ t.action = "None" -> 3
      [] t.tag = "Color" -> 4
      [] t.tag = "Present" /\ t.action = "ResetAlignment" -> 8
      [] t.tag = "RubyBaseStart" -> 9
      [] t.tag = "RubyTextStart" -> 10
      [] t.tag = "RubyTextEnd" -> 11
      [] t.tag = "FontSize" -> 12
      [] t.tag = "Parallel" -> 14
      [] t.tag = "Center" -> 15
      [] t.tag = "MarginTop" -> 17
      [] t.tag = "MarginLeft" -> 18
      [] t.tag = "HardcodedValue" -> 19
      [] t.tag = "Eval" -> 21
      [] t.tag = "Present" /\ t.action = "Unkown_0x18" -> 24
      [] t.tag = "AutoForward" -> 25
      [] t.tag = "AutoForward_1A" -> 26
      [] t.tag = "RubyCenterPerChar" -> 30
      [] t.tag = "Terminator" -> 255

\* (a variant of Payload without the match arm of Eval)
PayloadWithoutEval(t) ==
    IF t.tag = "Color" THEN t.data
    ELSE IF t.tag \in {"FontSize", "MarginTop", "MarginLeft", "HardcodedValue"}
    THEN BE16(t.val)
    ELSE <<>>

\* the payload written after the opcode byte
Payload(t) ==
    IF t.tag \in {"Color", "Eval"} THEN t.data
    ELSE IF t.tag \in {"FontSize", "MarginTop", "MarginLeft", "HardcodedValue"}
    THEN BE16(t.val)
    ELSE <<>>

\* StringToken::encode: the bytes written to the sink
Encode(t) ==
    IF t.tag = "Text" THEN WriteUnits(t.data)
    ELSE <<OpCode(t)>> \o Payload(t)

----------------------------------------------------------------------------
(* Sc3StringIter.                                                          *)

\* what next() returned: None, Some(Ok(tk)) or Some(Err(err)); `term` marks the
\* None returned because a Terminator was decoded
ItemNone(term) == [kind |-> "None", tk |-> NoTok, err |-> "", op |-> 0, term |-> term]
ItemOk(tk) == [kind |-> "Ok", tk |-> tk, err |-> "", op |-> 0, term |-> FALSE]
ItemErr(d) == [kind |-> "Err", tk |-> NoTok, err |-> d.err, op |-> d.op, term |-> FALSE]

\* Sc3StringIter::next on `rem`: the item returned and the new `remaining`
IterStep(rem) ==
    IF rem = <<>> THEN [item |-> ItemNone(FALSE), remaining |-> rem]
    ELSE LET d == Decode(rem) IN
         IF d.ok
         THEN [item |-> IF d.tk.tag = "Terminator" THEN ItemNone(TRUE) ELSE ItemOk(d.tk),
               remaining |-> d.rem]
         ELSE [item |-> ItemErr(d), remaining |-> rem]

----------------------------------------------------------------------------
(* The codec's inputs and steps.                                           *)

\* most chunks a modelled buffer is put together from
MaxChunks == 3
\* longest modelled buffer of arbitrary bytes of RawBytes
MaxRawLen == 3
\* longest Expr payload and longest Text payload of a modelled token
MaxExprLen == 3
MaxTextLen == 2
\* how many more times than the buffer has bytes next() is called
MaxExtraCalls == 2

\* pieces of buffers: whole tokens of every payload shape, a text code unit
\* whose low byte is 0xFF, a Terminator, an unknown opcode, and tokens cut short
Chunks == {<<1>>, <<4, 1, 2, 0>>, <<21, 160, 5, 6, 0>>, <<12, 1, 255>>,
           <<128, 65>>, <<129, 255>>, <<255>>, <<5>>, <<12>>, <<4, 1>>}

RawBytes == {0, 4, 5, 12, 128, 160, 255}

\* what may follow a first byte when every first byte is tried
Tails == {<<>>, <<0>>, <<255>>, <<128, 65>>}

\* the Expr of the repository's parse_expr test
TestExpr == <<41, 10, 160, 90, 20, 20, 0, 128, 0, 0>>

\* what may follow a first byte when every first byte starts an expression:
\* tails that end the expression early, late or not at all
ExprTails == {<<0, 0, 0, 0, 0, 9>>, <<1, 2, 3, 4, 0>>, <<1, 0, 0>>}

\* inputs of Expr::parse: the test's expression alone and followed by more,
\* and every first byte before each tail
ExprInputs ==
    {TestExpr, TestExpr \o <<7, 0>>}
    \cup {<<b>> \o t : b \in 0..255, t \in ExprTails}

BufferInputs ==
    {Flatten(cs) : cs \in SeqsUpTo(Chunks, MaxChunks)}
    \cup SeqsUpTo(RawBytes, MaxRawLen)
    \cup {<<b>> \o t : b \in 0..255, t \in Tails}
    \cup ExprInputs

SimpleTags == {"LineBreak", "NameStart", "LineStart", "RubyBaseStart", "RubyTextStart",
               "RubyTextEnd", "Parallel", "Center", "AutoForward", "AutoForward_1A",
               "RubyCenterPerChar", "Terminator"}
PresentActions == {"None", "ResetAlignment", "Unkown_0x18"}
U16Tags == {"FontSize", "MarginTop", "MarginLeft", "HardcodedValue"}
ExprTags == {"Color", "Eval"}

\* constructible tokens: every variant; any u16; Expr(pub Cow<[u8]>) with any
\* bytes; Text with any code units
TokenInputs ==
    {Simple(t) : t \in SimpleTags}
    \cup {Present(a) : a \in PresentActions}
    \cup {WithU16(t, v) : t \in U16Tags, v \in {0, 65, 511, 65535}}
    \cup {WithExpr(t, e) : t \in ExprTags,
                           e \in SeqsUpTo({0, 1, 160}, MaxExprLen) \cup {TestExpr}}
    \cup {Text(u) : u \in SeqsUpTo({65, 32833, 33023, 65280}, MaxTextLen)}

\* bytes put after an encoded token before it is decoded
Followers == {<<>>, <<255>>, <<1>>, <<128, 65, 255>>}

NotDone == [done |-> FALSE, bytes |-> <<>>, res |-> ExpectedMoreInput]

NotParsed == [done |-> FALSE, res |-> [ok |-> FALSE, span |-> <<>>, rem |-> <<>>]]

ContainerIdle ==
    /\ file = <<>> /\ orig = <<>> /\ cursor = 0 /\ wbuf = <<>>
    /\ script = Closed /\ last = NoOp /\ calls = 0

\* StringIndex::iter(): pos 0, nothing returned yet; no get call made
NewIter == [pos |-> 0, yielded |-> <<>>]
NoGet == [done |-> FALSE, index |-> 0, h |-> NoHandle]

IndexIdle == iter = NewIter /\ got = NoGet

\* no game definitions, startup not begun, equivalent not called
NotStarted == [state |-> "init", defs |-> <<>>,
               report |-> [full_name |-> 0, chars |-> <<>>]]
\* a coz::StringSegment: a run of text, or anything else of a line of the text
\* file with the StringToken it stands for (NoTok: for none)
Segment(kind, str, tk) == [kind |-> kind, str |-> str, tk |-> tk]
TextSegment(str) == Segment("Text", str, NoTok)
OtherSegment(tk) == Segment("Other", <<>>, tk)

NoEq == [done |-> FALSE, scr_tk |-> NoTok, txt_seg |-> OtherSegment(NoTok),
         width_insensitive |-> FALSE, ok |-> FALSE, res |-> FALSE]

\* replace_text not called
NoRun == [done |-> FALSE, keep_fullwidth_chars |-> FALSE, err |-> "", line |-> 0,
          invoked |-> FALSE, before |-> <<>>, changes |-> <<>>]

ToolIdle ==
    /\ games = <<>> /\ startup = NotStarted /\ eq = NoEq
    /\ txt = <<>> /\ run = NoRun

\* no replace_strings call under way and none made
NoCall == [phase |-> "idle", at |-> "", k |-> 0, changes |-> NoChanges, lines |-> <<>>,
           offsets |-> <<>>, before |-> <<>>, old_table |-> <<>>, earlier |-> FALSE]

StepIdle == pc = NoCall

CodecIdle ==
    /\ buf = <<>> /\ remaining = <<>> /\ items = <<>>
    /\ tok = NoTok /\ follow = <<>> /\ enc = NotDone /\ dec = NotDone
    /\ ex = NotParsed

\* either a String Buffer to iterate and decode, or a token to encode
CodecInit ==
    /\ ContainerIdle
    /\ IndexIdle
    /\ ToolIdle
    /\ StepIdle
    /\ items = <<>> /\ follow = <<>> /\ enc = NotDone /\ dec = NotDone
    /\ ex = NotParsed
    /\ \/ buf \in BufferInputs /\ remaining = buf /\ tok = NoTok
       \/ tok \in TokenInputs /\ buf = <<>> /\ remaining = <<>>

\* one call of next() on the buffer's iterator
IterNext ==
    /\ tok = NoTok
    /\ Len(items) < Len(buf) + MaxExtraCalls
    /\ LET r == IterStep(remaining) IN
       /\ remaining' = r.remaining
       /\ items' = Append(items, r.item)
    /\ UNCHANGED <<buf, tok, follow, enc, dec, ex>>

\* StringToken::decode applied to the buffer
DecodeBuf ==
    /\ tok = NoTok
    /\ items = <<>>
    /\ ~dec.done
    /\ dec' = [done |-> TRUE, bytes |-> buf, res |-> Decode(buf)]
    /\ UNCHANGED <<buf, remaining, items, tok, follow, enc, ex>>

\* tok.encode(&mut sink) on an empty sink
EncodeTok ==
    /\ tok # NoTok
    /\ ~enc.done
    /\ enc' = [done |-> TRUE, bytes |-> Encode(tok), res |-> ExpectedMoreInput]
    /\ UNCHANGED <<buf, remaining, items, tok, follow, dec, ex>>

\* StringToken::decode applied to the sink's bytes followed by f
DecodeEncoded(f) ==
    /\ enc.done
    /\ ~dec.done
    /\ follow' = f
    /\ dec' = [done |-> TRUE, bytes |-> enc.bytes \o f, res |-> Decode(enc.bytes \o f)]
    /\ UNCHANGED <<buf, remaining, items, tok, enc, ex>>

\* Expr::parse applied to the buffer
ExprParseBuf ==
    /\ tok = NoTok
    /\ items = <<>>
    /\ ~dec.done
    /\ ~ex.done
    /\ ex' = [done |-> TRUE, res |-> ExprParse(buf)]
    /\ UNCHANGED <<buf, remaining, items, tok, follow, enc, dec>>

CodecNext ==
    \/ IterNext /\ UNCHANGED <<containerVars, indexVars, toolVars, stepVars>>
    \/ ExprParseBuf /\ UNCHANGED <<containerVars, indexVars, toolVars, stepVars>>
    \/ DecodeBuf /\ UNCHANGED <<containerVars, indexVars, toolVars, stepVars>>
    \/ EncodeTok /\ UNCHANGED <<containerVars, indexVars, toolVars, stepVars>>
    \/ (\E f \in Followers : DecodeEncoded(f)) /\ UNCHANGED <<containerVars, indexVars, toolVars, stepVars>>

CodecSpec == CodecInit /\ [][CodecNext]_vars

----------------------------------------------------------------------------

Init ==
    /\ file \in Files
    /\ orig = file
    /\ cursor = 0
    /\ wbuf = <<>>
    /\ script = Closed
    /\ last = NoOp
    /\ calls = 0
    /\ CodecIdle
    /\ IndexIdle
    /\ ToolIdle
    /\ StepIdle

Next ==
    \/ Open /\ UNCHANGED <<codecVars, indexVars, toolVars, stepVars>>
    \/ (\E i \in 0..(MaxSlots - 1) : ReadSlot(i)) /\ UNCHANGED <<codecVars, indexVars, toolVars, stepVars>>
    \/ (\E changes \in ChangeSets : ReplaceStrings(changes))
          /\ UNCHANGED <<codecVars, indexVars, toolVars, stepVars>>
    \/ Close /\ UNCHANGED <<codecVars, indexVars, toolVars, stepVars>>

Spec == Init /\ [][Next]_vars

----------------------------------------------------------------------------
(* StringIndex on its own: StringIndex::new, get and iter.                 *)

\* largest number of offsets of a modelled StringIndex
MaxIndexLen == 3
\* how many more times than the index has offsets next() is called
MaxIndexExtra == 2

\* the offsets and end offsets StringIndex::new is given: those of the
\* two-slot file with its table at 16..24 (offsets 28 and 32), in any order
\* and number, and an end offset after and one between them
IndexOffsets == {28, 32}
IndexEofs == {30, 36}

IndexInit ==
    /\ file = <<>> /\ orig = <<>> /\ cursor = 0 /\ wbuf = <<>>
    /\ last = NoOp /\ calls = 0
    /\ \E o \in SeqsUpTo(IndexOffsets, MaxIndexLen), e \in IndexEofs :
          script = [Closed EXCEPT !.string_index = [offsets |-> o, eof |-> e]]
    /\ CodecIdle
    /\ IndexIdle
    /\ ToolIdle
    /\ StepIdle

\* string_index.get(index)
IndexGet(index) ==
    /\ got' = [done |-> TRUE, index |-> index, h |-> Get(script.string_index, index)]
    /\ UNCHANGED iter

\* StringIndexIter::next: get(pos), and pos moves on when that is Some
StringIndexIterNext ==
    /\ Len(iter.yielded) < Count(script.string_index) + MaxIndexExtra
    /\ LET next == Get(script.string_index, iter.pos) IN
       iter' = [pos |-> IF next.some THEN iter.pos + 1 ELSE iter.pos,
                yielded |-> Append(iter.yielded, next)]
    /\ UNCHANGED got

IndexNext ==
    \/ (\E index \in 0..(MaxIndexLen + 1) : IndexGet(index))
          /\ UNCHANGED <<containerVars, codecVars, toolVars, stepVars>>
    \/ StringIndexIterNext /\ UNCHANGED <<containerVars, codecVars, toolVars, stepVars>>

IndexSpec == IndexInit /\ [][IndexNext]_vars

----------------------------------------------------------------------------
(* Game definitions: GameDef::new and build_gamedefs_from_json.            *)
(* Characters are Unicode scalar values, strings are sequences of them.    *)

\* most game definitions in gamedefs.json
MaxGames == 2
\* most codepoints in the range of a line of compound_chars.map
MaxPuaRange == 3

\* the first codepoint of the Private Use Area, U+E000
PuaStart == 57344

\* charset.utf8 of a game: 'A', fullwidth 'A' and 'B', the fullwidth space,
\* and none, one or MaxPuaRange of the Private-Use-Area characters
Charsets ==
    {<<65, 65313, 65314, 12288>> \o [k \in 1..n |-> PuaStart + k - 1] :
        n \in {0, 1, MaxPuaRange}}

\* compound_chars.map of a game as its PuaMapping lines: none, one codepoint
\* ("[E000]=AA"), or that and a range that overlaps it ("[E000-E002]=AB")
MappingLists ==
    {<<>>,
     <<[lo |-> PuaStart, hi |-> PuaStart, ch |-> <<65, 65>>]>>,
     <<[lo |-> PuaStart, hi |-> PuaStart, ch |-> <<65, 65>>],
       [lo |-> PuaStart, hi |-> PuaStart + MaxPuaRange - 1, ch |-> <<65, 66>>]>>}

\* one entry of gamedefs.json with the resources its resource_dir holds
GameDefJson(charset, mappings, blocklist) ==
    [charset |-> charset, mappings |-> mappings, fullwidth_blocklist |-> blocklist]

GameDefJsons ==
    {GameDefJson(c, m, {}) : c \in Charsets, m \in MappingLists}
    \cup {GameDefJson(c, <<>>, {65314}) : c \in Charsets}

\* the full_name of the k-th entry
GameName(k) == k

\* parse_compound_ch_map: every codepoint of every line's range is mapped to
\* the line's string; collecting into the HashMap keeps the last line's
ParseCompoundChMap(mappings) ==
    LET linesOf(c) == {k \in 1..Len(mappings) : mappings[k].lo <= c /\ c <= mappings[k].hi}
        lastOf(c) == CHOOSE k \in linesOf(c) : \A j \in linesOf(c) : j <= k
    IN  [c \in {d \in PuaStart..(PuaStart + MaxPuaRange) : linesOf(d) # {}} |->
            mappings[lastOf(c)].ch]

\* EncodingMaps::new(&charset, &compound_chars): fails, with the codepoints
\* concerned, when a codepoint of the compound table is not in the charset
MissingPuaChars(charset, compound_chars) ==
    {c \in DOMAIN compound_chars : \A k \in 1..Len(charset) : charset[k] # c}

\* the orders a set's elements may come in
Orders(S) == {q \in [1..Cardinality(S) -> S] : \A x \in S : \E k \in DOMAIN q : q[k] = x}

\* (a variant of PanicReport that names the first missing character only)
PanicReportFirst(full_name, missing_pua_chars) ==
    [full_name |-> full_name, chars |-> <<missing_pua_chars[1]>>]

\* the panic message of GameDef::new: the game's name and every element of
\* err.missing_pua_chars, each formatted and joined with ", "
PanicReport(full_name, missing_pua_chars) ==
    [full_name |-> full_name, chars |-> missing_pua_chars]

\* GameDef::new for entry j named full_name, where EncodingMaps::new reported
\* `missing` (in the order `order`) or succeeded
GameDefNew(full_name, j, order) ==
    LET compound_chars == ParseCompoundChMap(j.mappings) IN
    IF order # <<>>
    THEN [panic |-> TRUE, report |-> PanicReport(full_name, order), def |-> <<>>]
    ELSE [panic |-> FALSE, report |-> NotStarted.report,
          def |-> [full_name |-> full_name, charset |-> j.charset,
                   compound_chars |-> compound_chars,
                   fullwidth_blocklist |-> j.fullwidth_blocklist]]

\* build_gamedefs_from_json: defs.into_iter().map(GameDef::from).collect();
\* the panic of the first entry that fails ends it, and the program
BuildGameDefs ==
    /\ startup.state = "init"
    /\ LET missing(k) == MissingPuaChars(games[k].charset,
                                         ParseCompoundChMap(games[k].mappings))
           failing == {k \in 1..Len(games) : missing(k) # {}}
       IN  IF failing = {}
           THEN startup' = [state |-> "running",
                            defs |-> [k \in 1..Len(games) |->
                                        GameDefNew(GameName(k), games[k], <<>>).def],
                            report |-> NotStarted.report]
           ELSE LET k == SetMin(failing) IN
                \E order \in Orders(missing(k)) :
                    startup' = [state |-> "panicked", defs |-> <<>>,
                                report |-> GameDefNew(GameName(k), games[k], order).report]
    /\ UNCHANGED <<games, eq, txt, run>>

----------------------------------------------------------------------------
(* Text: the character encoding, and the equivalence check of lib.rs.      *)

\* text::FULLWIDTH_SPACE, U+3000
FULLWIDTH_SPACE == 12288

\* text::is_fullwidth_ch: U+FF01..U+FF5E, the fullwidth forms of the
\* printable ASCII characters, and the fullwidth space
IsFullwidthCh(c) == c \in 65281..65374 \/ c = FULLWIDTH_SPACE

\* text::replace_fullwidth: the halfwidth character of a fullwidth one
ReplaceFullwidth(c) ==
    IF c \in 65281..65374 THEN c - 65248
    ELSE IF c = FULLWIDTH_SPACE THEN 32 ELSE c

\* fullwidth folding of one character: a fullwidth character other than the
\* fullwidth space becomes its halfwidth equivalent unless it is blocklisted
FoldCh(c, blocklist) ==
    IF IsFullwidthCh(c) /\ c # FULLWIDTH_SPACE /\ c \notin blocklist
    THEN ReplaceFullwidth(c) ELSE c

\* the double-byte code unit of the character at 0-based position p of the
\* charset, and back
CodeUnit(p) == 32768 + p
CodePos(u) == u - 32768

\* text::decode_str(units, gamedef, keep_fullwidth_chars): every code unit is
\* looked up; a compound character expands to its string; other characters
\* are folded unless fullwidth characters are kept.  Fails on a code unit
\* that is no character's.
DecodeStr(units, gamedef, keep_fullwidth_chars) ==
    LET known(u) == CodePos(u) >= 0 /\ CodePos(u) < Len(gamedef.charset)
        ch(u) == gamedef.charset[CodePos(u) + 1]
        one(u) == IF ch(u) \in DOMAIN gamedef.compound_chars
                  THEN gamedef.compound_chars[ch(u)]
                  ELSE IF keep_fullwidth_chars THEN <<ch(u)>>
                  ELSE <<FoldCh(ch(u), gamedef.fullwidth_blocklist)>>
    IN  IF \A k \in 1..Len(units) : known(units[k])
        THEN [ok |-> TRUE, str |-> Flatten([k \in 1..Len(units) |-> one(units[k])])]
        ELSE [ok |-> FALSE, str |-> <<>>]

\* text::to_halfwidth(s, &gamedef.encoding_maps): folds every character of s;
\* it is given the encoding maps and not the game's blocklist
ToHalfwidth(str) == [k \in 1..Len(str) |-> FoldCh(str[k], {})]

\* StringToken::deserialize(segment, gamedef, fullwidth): a text segment
\* becomes a Text token of its characters' code units (with `fullwidth`,
\* of their fullwidth forms where the charset has them), any other segment
\* the token it stands for.  Fails on a character that is not in the charset
\* and on a segment that stands for no token.
Deserialize(seg, gamedef, fullwidth) ==
    LET pos(c) == {p \in 1..Len(gamedef.charset) : gamedef.charset[p] = c}
        wide(c) == IF fullwidth /\ c \in 33..126 /\ pos(c + 65248) # {}
                   THEN c + 65248 ELSE c
    IN  IF seg.kind = "Text"
        THEN IF \A k \in 1..Len(seg.str) : pos(seg.str[k]) # {}
             THEN [ok |-> TRUE,
                   tk |-> Text([k \in 1..Len(seg.str) |->
                                   CodeUnit(SetMin(pos(wide(seg.str[k]))) - 1)])]
             ELSE [ok |-> FALSE, tk |-> NoTok]
        ELSE [ok |-> seg.tk # NoTok, tk |-> seg.tk]

\* (a variant of Equivalent that takes the width-insensitive branch whatever
\* the flag is)
EquivalentFolding(scr_tk, txt_seg, gamedef, width_insensitive) ==
    IF txt_seg.kind = "Text" /\ scr_tk.tag = "Text"
    THEN LET scr_str == DecodeStr(scr_tk.data, gamedef, FALSE) IN
         IF scr_str.ok
         THEN [ok |-> TRUE, res |-> ToHalfwidth(txt_seg.str) = scr_str.str]
         ELSE [ok |-> FALSE, res |-> FALSE]
    ELSE LET txt_tk == Deserialize(txt_seg, gamedef, FALSE) IN
         [ok |-> TRUE, res |-> txt_tk.ok /\ scr_tk = txt_tk.tk]

\* equivalent(scr_tk, txt_seg, gamedef, width_insensitive) of lib.rs: Ok(bool)
\* or the EncodingError of decode_str
Equivalent(scr_tk, txt_seg, gamedef, width_insensitive) ==
    IF txt_seg.kind = "Text" /\ scr_tk.tag = "Text"
    THEN IF width_insensitive
         THEN LET scr_str == DecodeStr(scr_tk.data, gamedef, FALSE) IN
              IF scr_str.ok
              THEN [ok |-> TRUE, res |-> ToHalfwidth(txt_seg.str) = scr_str.str]
              ELSE [ok |-> FALSE, res |-> FALSE]
         ELSE LET scr_str == DecodeStr(scr_tk.data, gamedef, TRUE) IN
              IF scr_str.ok
              THEN [ok |-> TRUE, res |-> txt_seg.str = scr_str.str]
              ELSE [ok |-> FALSE, res |-> FALSE]
    ELSE LET txt_tk == Deserialize(txt_seg, gamedef, FALSE) IN
         [ok |-> TRUE, res |-> txt_tk.ok /\ scr_tk = txt_tk.tk]

\* longest text run and text segment given to equivalent
MaxEqLen == 2

\* script tokens given to equivalent: text runs over the code units of 'A',
\* fullwidth 'A', fullwidth 'B' and the fullwidth space, and over one that is
\* a compound character's or no character's; and two tokens that are not text
EqTokens ==
    {Text(u) : u \in SeqsUpTo({CodeUnit(0), CodeUnit(1), CodeUnit(2), CodeUnit(3),
                               CodeUnit(4)}, MaxEqLen) \ {<<>>}}
    \cup {Simple("LineBreak"), WithU16("FontSize", 65)}

\* text-file segments given to equivalent: text over 'A', 'B', their
\* fullwidth forms and the fullwidth space; segments for the two tokens and
\* one for none
EqSegments ==
    {TextSegment(t) : t \in SeqsUpTo({65, 66, 65313, 65314, FULLWIDTH_SPACE},
                                      MaxEqLen) \ {<<>>}}
    \cup {OtherSegment(Simple("LineBreak")), OtherSegment(WithU16("FontSize", 65)),
          OtherSegment(NoTok)}

\* the program runs with one game's definition and has not yet called
\* equivalent
EqPending ==
    /\ startup.state = "running"
    /\ Len(startup.defs) = 1
    /\ ~eq.done

\* one call of equivalent, in a run with one game's definition
CallEquivalent(scr_tk, txt_seg, width_insensitive) ==
    /\ EqPending
    /\ \E r \in {Equivalent(scr_tk, txt_seg, startup.defs[1], width_insensitive)} :
       eq' = [done |-> TRUE, scr_tk |-> scr_tk, txt_seg |-> txt_seg,
              width_insensitive |-> width_insensitive, ok |-> r.ok, res |-> r.res]
    /\ UNCHANGED <<games, startup, txt, run>>

ToolInit ==
    /\ ContainerIdle
    /\ CodecIdle
    /\ IndexIdle
    /\ games \in SeqsUpTo(GameDefJsons, MaxGames)
    /\ startup = NotStarted
    /\ eq = NoEq
    /\ txt = <<>> /\ run = NoRun
    /\ StepIdle

ToolNext ==
    \/ BuildGameDefs /\ UNCHANGED <<containerVars, codecVars, indexVars, stepVars>>
    \/ (/\ EqPending
        /\ \E scr_tk \in EqTokens, txt_seg \in EqSegments, width_insensitive \in BOOLEAN :
              CallEquivalent(scr_tk, txt_seg, width_insensitive))
          /\ UNCHANGED <<containerVars, codecVars, indexVars, stepVars>>

ToolSpec == ToolInit /\ [][ToolNext]_vars

----------------------------------------------------------------------------
(* The replace workflow: replace_text of lib.rs.                           *)

\* most slots of a script file and most lines of a text file of the workflow
MaxLines == 2

\* a line of the text file, as txt.lines() yields it: its segments, or an
\* error for a line that is not UTF-8
TextLine(segs) == [valid |-> TRUE, segs |-> segs]
InvalidLine == [valid |-> FALSE, segs |-> <<>>]

\* (a variant of ZipLongest that ends with the shorter side, as zip does)
ZipShortest(i, n, m) == IF i < n /\ i < m THEN "Both" ELSE "End"

\* the i-th item (0-based) of a.zip_longest(b) for a of n and b of m items
ZipLongest(i, n, m) ==
    IF i < n /\ i < m THEN "Both"
    ELSE IF i < n THEN "Left"
    ELSE IF i < m THEN "Right"
    ELSE "End"

SameLine == [err |-> "", changed |-> FALSE]
ChangedLine == [err |-> "", changed |-> TRUE]
FailedLine(err) == [err |-> err, changed |-> FALSE]

RECURSIVE CompareTokens(_, _, _, _, _)
\* for pair in scr_line.iter().zip_longest(txt_line.iter()), from the script
\* bytes `rem` and the j-th segment on: the line is the same, is changed (the
\* loop breaks at the first difference), or an error is returned
CompareTokens(rem, segs, j, gamedef, keep_fullwidth_chars) ==
    LET sc3 == IterStep(rem)
        isSc3 == sc3.item.kind # "None"
        isCoz == j <= Len(segs)
    IN  IF isSc3 /\ isCoz
        THEN IF sc3.item.kind = "Err" THEN FailedLine(sc3.item.err)
             ELSE LET e == Equivalent(sc3.item.tk, segs[j], gamedef, keep_fullwidth_chars)
                  IN  IF ~e.ok THEN FailedLine("Script")
                      ELSE IF ~e.res THEN ChangedLine
                      ELSE CompareTokens(sc3.remaining, segs, j + 1, gamedef,
                                         keep_fullwidth_chars)
        ELSE IF isSc3
        THEN IF sc3.item.kind = "Err" THEN FailedLine(sc3.item.err) ELSE ChangedLine
        ELSE IF isCoz
        THEN IF Deserialize(segs[j], gamedef, FALSE).ok THEN ChangedLine
             ELSE FailedLine("Text")
        ELSE SameLine

RECURSIVE CompareLines(_, _, _, _, _, _)
\* for (i, line_pair) in lines.enumerate(), from pair i on: the error returned
\* and its line, or the indices pushed to `changes`
CompareLines(i, f, si, text, gamedef, keep_fullwidth_chars) ==
    LET kind == ZipLongest(i, Count(si), Len(text))
        failed(err) == [err |-> err, line |-> i, changes |-> <<>>]
    IN  IF kind = "End" THEN [err |-> "", line |-> 0, changes |-> <<>>]
        ELSE IF kind # "Both" THEN failed("LineCountMismatch")
        ELSE LET scr_line == ReadString(f, Get(si, i))
                 txt_line == text[i + 1]
             IN  IF ~scr_line.ok \/ ~txt_line.valid THEN failed("Io")
                 ELSE LET c == CompareTokens(scr_line.bytes, txt_line.segs, 1, gamedef,
                                             keep_fullwidth_chars)
                          rest == CompareLines(i + 1, f, si, text, gamedef,
                                               keep_fullwidth_chars)
                      IN  IF c.err # "" THEN failed(c.err)
                          ELSE IF rest.err # "" THEN rest
                          ELSE [rest EXCEPT !.changes =
                                   (IF c.changed THEN <<i>> ELSE <<>>) \o rest.changes]

\* char::is_ascii_alphanumeric
IsAsciiAlphanumeric(c) == c \in 48..57 \/ c \in 65..90 \/ c \in 97..122

RECURSIVE OrigFullwidth(_, _)
\* the loop of process_change over the tokens of the slot's bytes: whether a
\* text run of the original line holds a fullwidth letter or digit
OrigFullwidth(rem, gamedef) ==
    LET tk == IterStep(rem) IN
    IF tk.item.kind = "None" THEN [err |-> "", fullwidth |-> FALSE]
    ELSE IF tk.item.kind = "Err" THEN [err |-> "Script", fullwidth |-> FALSE]
    ELSE IF tk.item.tk.tag # "Text" THEN OrigFullwidth(tk.remaining, gamedef)
    ELSE LET decoded == DecodeStr(tk.item.tk.data, gamedef, TRUE) IN
         IF ~decoded.ok THEN [err |-> "Text", fullwidth |-> FALSE]
         ELSE IF \E k \in 1..Len(decoded.str) :
                    /\ decoded.str[k] # FULLWIDTH_SPACE
                    /\ IsFullwidthCh(decoded.str[k])
                    /\ IsAsciiAlphanumeric(ReplaceFullwidth(decoded.str[k]))
         THEN [err |-> "", fullwidth |-> TRUE]
         ELSE OrigFullwidth(tk.remaining, gamedef)

RECURSIVE DeserializeLine(_, _, _, _)
\* Sc3String::deserialize(line, gamedef, fullwidth): the encoded tokens of the
\* line's segments from the j-th on, and the Terminator
DeserializeLine(segs, j, gamedef, fullwidth) ==
    IF j > Len(segs) THEN [ok |-> TRUE, bytes |-> <<255>>]
    ELSE LET t == Deserialize(segs[j], gamedef, fullwidth)
             rest == DeserializeLine(segs, j + 1, gamedef, fullwidth)
         IN  IF t.ok /\ rest.ok THEN [ok |-> TRUE, bytes |-> Encode(t.tk) \o rest.bytes]
             ELSE [ok |-> FALSE, bytes |-> <<>>]

\* process_change(i, s)
ProcessChange(i, f, si, text, gamedef) ==
    LET fw == OrigFullwidth(ReadString(f, Get(si, i)).bytes, gamedef)
        d == DeserializeLine(text[i + 1].segs, 1, gamedef, fw.fullwidth)
    IN  IF fw.err # "" THEN [err |-> fw.err, bytes |-> <<>>]
        ELSE IF ~d.ok THEN [err |-> "Text", bytes |-> <<>>]
        ELSE [err |-> "", bytes |-> d.bytes]

\* replace_text returns Err(err) before script.replace_strings is reached:
\* the file f is as it was
Unwritten(f, err, line) ==
    [err |-> err, line |-> line, invoked |-> FALSE, file |-> f, changes |-> <<>>]

\* script.replace_strings(&changes) has made the writes r; then the Script is
\* dropped, which flushes the BufWriter
Written(r, changes) ==
    [err |-> IF r.ok THEN "" ELSE "Io", line |-> 0, invoked |-> TRUE,
     file |-> WriteAt(r.file, r.cursor, r.wbuf), changes |-> changes]

\* script.replace_strings(&changes)?; open left the shared cursor at
\* end-of-file and the BufWriter empty
ApplyChanges(f, scr, changes) ==
    Written(ReplaceStringsResult(f, Len(f), <<>>, scr, changes), changes)

\* changes.into_iter().map(process_change).collect::<Result<HashMap>>()?, for
\* the indices idx pushed to `changes` and what process_change made of each:
\* the first error is returned, or the map goes to replace_strings
CollectChanges(f, scr, idx, made) ==
    LET failing == {k \in 1..Len(idx) : made[k].err # ""} IN
    IF failing # {}
    THEN Unwritten(f, made[SetMin(failing)].err, idx[SetMin(failing)])
    ELSE ApplyChanges(f, scr,
             [i \in {idx[k] : k \in 1..Len(idx)} |->
                 made[CHOOSE k \in 1..Len(idx) : idx[k] = i].bytes])

\* replace_text after its loop over the line pairs has ended as c
AfterCompare(f, scr, c, text, gamedef) ==
    IF c.err # "" THEN Unwritten(f, c.err, c.line)
    ELSE CollectChanges(f, scr, c.changes,
             [k \in 1..Len(c.changes) |->
                 ProcessChange(c.changes[k], f, scr.string_index, text, gamedef)])

\* replace_text after Script::open(script_file) has ended as o
AfterOpen(f, o, text, gamedef, keep_fullwidth_chars) ==
    IF o.err # "" THEN Unwritten(f, o.err, 0)
    ELSE AfterCompare(f, o.script,
             CompareLines(0, f, o.script.string_index, text, gamedef,
                          keep_fullwidth_chars),
             text, gamedef)

\* replace_text(script_file, text_file, gamedef, keep_fullwidth_chars) on the
\* script file f and the text file's lines: the error returned ("" for Ok)
\* and its line, whether replace_strings was invoked and with what, and the
\* file as it is when the Script has been dropped
ReplaceTextResult(f, text, gamedef, keep_fullwidth_chars) ==
    AfterOpen(f, OpenResult(f), text, gamedef, keep_fullwidth_chars)

\* one run of replace_text with the first game's definition; the Script it
\* opens is dropped when it returns
ReplaceText(keep_fullwidth_chars) ==
    /\ startup.state = "running"
    /\ Len(startup.defs) >= 1
    /\ ~run.done
    /\ \E r \in {ReplaceTextResult(file, txt, startup.defs[1], keep_fullwidth_chars)} :
       /\ file' = r.file
       /\ run' = [done |-> TRUE, keep_fullwidth_chars |-> keep_fullwidth_chars,
                  err |-> r.err, line |-> r.line, invoked |-> r.invoked,
                  before |-> file, changes |-> r.changes]
    /\ UNCHANGED <<cursor, wbuf, script, orig, last, calls, games, startup, eq, txt>>

\* what a slot of a script file of the workflow holds: the text 'A', the text
\* of a fullwidth 'A', an unknown opcode, a text run of no character's code
WorkflowSlots == {<<128, 0, 255>>, <<128, 1, 255>>, <<5, 255>>, <<128, 9, 255>>}

\* the script files of the workflow, and a file that is no script
WorkflowFiles ==
    {MakeFile(Layouts1, slots) : slots \in SeqsUpTo(WorkflowSlots, MaxLines)}
    \cup {<<1, 2, 3>>}

\* the lines of the text files: "A", a character the charset does not have,
\* a line break command, an empty line, a line that is not UTF-8
WorkflowLines ==
    {TextLine(<<TextSegment(<<65>>)>>), TextLine(<<TextSegment(<<66>>)>>),
     TextLine(<<OtherSegment(Simple("LineBreak"))>>), TextLine(<<>>), InvalidLine}

WorkflowInit ==
    /\ file \in WorkflowFiles
    /\ orig = file
    /\ cursor = 0 /\ wbuf = <<>> /\ script = Closed /\ last = NoOp /\ calls = 0
    /\ CodecIdle
    /\ IndexIdle
    /\ games \in {<<GameDefJson(<<65, 65313, 65314, 12288>>, <<>>, b)>> : b \in {{}, {65313}}}
    /\ startup = NotStarted
    /\ eq = NoEq
    /\ txt \in SeqsUpTo(WorkflowLines, MaxLines)
    /\ run = NoRun
    /\ StepIdle

WorkflowNext ==
    \/ BuildGameDefs /\ UNCHANGED <<containerVars, codecVars, indexVars, stepVars>>
    \/ (\E keep_fullwidth_chars \in BOOLEAN : ReplaceText(keep_fullwidth_chars))
          /\ UNCHANGED <<codecVars, indexVars, stepVars>>

WorkflowSpec == WorkflowInit /\ [][WorkflowNext]_vars

----------------------------------------------------------------------------
(* Script::replace_strings step by step: each read_string, seek and write  *)
(* of the call is a step, and the process may be stopped between steps.    *)

\* The capacity of the BufWriter.  std's is 8 KiB; the modelled files are a
\* few dozen bytes, so the capacity is scaled down with them: some writes
\* reach the file while the call is under way, as they do for a heap or a
\* table larger than the buffer, and some bytes are still in the buffer when
\* the call returns, as they are for a small table.
WriterCapacity == 5

\* BufWriter::write(bytes) with wb pending and the shared cursor at cur: what
\* is pending is flushed first when the bytes do not fit with it; bytes as
\* long as the capacity go to the file directly, others are buffered
BufWrite(f, cur, wb, bytes) ==
    LET flush == Len(wb) + Len(bytes) > WriterCapacity
        f1 == IF flush THEN WriteAt(f, cur, wb) ELSE f
        cur1 == IF flush THEN cur + Len(wb) ELSE cur
        wb1 == IF flush THEN <<>> ELSE wb
    IN  IF Len(bytes) >= WriterCapacity
        THEN [file |-> WriteAt(f1, cur1, bytes), cursor |-> cur1 + Len(bytes), wbuf |-> wb1]
        ELSE [file |-> f1, cursor |-> cur1, wbuf |-> wb1 \o bytes]

\* (a variant of BufSeek that moves the cursor and leaves the pending bytes
\* in the buffer)
BufSeekUnflushed(f, cur, wb, pos) == [file |-> f, cursor |-> pos, wbuf |-> wb]

\* BufWriter::seek(SeekFrom::Start(pos)): flushes what is pending at the
\* shared cursor, then moves the cursor
BufSeek(f, cur, wb, pos) == [file |-> WriteAt(f, cur, wb), cursor |-> pos, wbuf |-> <<>>]

\* the bytes of file f where the offset table of the open container lies
TableRegion(f) ==
    SubSeq(f, script.string_index_offset + 1,
           script.string_index_offset + 4 * Count(script.string_index))

\* new contents of the step-by-step calls: shorter than the capacity, and
\* longer
StepContents == NewContents \cup {<<20, 30, 40, 50, 60, 70, 255>>}

\* change sets of the step-by-step calls: any set of slots, all given the
\* same new content
StepChangeSets ==
    {[i \in D |-> c] : D \in SUBSET (0..(MaxSlots - 1)), c \in StepContents}

\* replace_strings(changes) is called: a first call, or one later call
Begin(changes) ==
    /\ script.open
    /\ pc.phase = "idle"
    /\ pc' = [NoCall EXCEPT !.phase = "read", !.changes = changes, !.before = file,
                            !.old_table = TableRegion(file), !.earlier = pc.earlier]
    /\ UNCHANGED <<file, cursor, wbuf, script, orig, last, calls>>

\* one item of the map over string_index.iter(): the slot's new bytes, or
\* read_string(handle); a failed read ends the call with its error
Materialize ==
    /\ pc.phase = "read"
    /\ pc.k < Count(script.string_index)
    /\ IF pc.k \in DOMAIN pc.changes
       THEN /\ pc' = [pc EXCEPT !.k = pc.k + 1,
                                !.lines = Append(pc.lines, pc.changes[pc.k])]
            /\ UNCHANGED cursor
       ELSE LET r == ReadString(file, Get(script.string_index, pc.k)) IN
            /\ cursor' = r.cursor
            /\ pc' = IF r.ok
                     THEN [pc EXCEPT !.k = pc.k + 1, !.lines = Append(pc.lines, r.bytes)]
                     ELSE [pc EXCEPT !.phase = "returned", !.at = "read"]
    /\ UNCHANGED <<file, wbuf, script, orig, last, calls>>

\* the lines are collected.  Without a slot 0 the call returns Ok; otherwise
\* the offsets are set up and writer.seek(heap_start) is made
SeekHeap ==
    /\ pc.phase = "read"
    /\ pc.k = Count(script.string_index)
    /\ IF pc.k = 0
       THEN /\ pc' = [pc EXCEPT !.phase = IF pc.earlier THEN "returned" ELSE "idle",
                                !.earlier = TRUE]
            /\ UNCHANGED <<file, cursor, wbuf>>
       ELSE LET heap_start == Get(script.string_index, 0).start
                w == BufSeek(file, cursor, wbuf, heap_start)
            IN  /\ file' = w.file /\ cursor' = w.cursor /\ wbuf' = w.wbuf
                /\ pc' = [pc EXCEPT !.phase = "heap", !.k = 0,
                                    !.offsets = ScanOffsets(heap_start, pc.lines),
                                    !.old_table = TableRegion(w.file)]
    /\ UNCHANGED <<script, orig, last, calls>>

\* for s in &lines { writer.write(&s.0)? }: one write
WriteLine ==
    /\ pc.phase = "heap"
    /\ pc.k < Len(pc.lines)
    /\ LET w == BufWrite(file, cursor, wbuf, pc.lines[pc.k + 1]) IN
       file' = w.file /\ cursor' = w.cursor /\ wbuf' = w.wbuf
    /\ pc' = [pc EXCEPT !.k = pc.k + 1]
    /\ UNCHANGED <<script, orig, last, calls>>

\* writer.seek(string_index_offset)
SeekTable ==
    /\ pc.phase = "heap"
    /\ pc.k = Len(pc.lines)
    /\ LET w == BufSeek(file, cursor, wbuf, script.string_index_offset) IN
       file' = w.file /\ cursor' = w.cursor /\ wbuf' = w.wbuf
    /\ pc' = [pc EXCEPT !.phase = "table", !.k = 0]
    /\ UNCHANGED <<script, orig, last, calls>>

\* for offset in offsets { writer.write_u32::<LittleEndian>(offset)? }: one write
WriteOffset ==
    /\ pc.phase = "table"
    /\ pc.k < Len(pc.offsets)
    /\ LET w == BufWrite(file, cursor, wbuf, LE32(pc.offsets[pc.k + 1])) IN
       file' = w.file /\ cursor' = w.cursor /\ wbuf' = w.wbuf
    /\ pc' = [pc EXCEPT !.k = pc.k + 1]
    /\ UNCHANGED <<script, orig, last, calls>>

\* Ok(()) is returned; self.string_index is as it was
Return ==
    /\ pc.phase = "table"
    /\ pc.k = Len(pc.offsets)
    /\ pc' = [pc EXCEPT !.phase = IF pc.earlier THEN "returned" ELSE "idle",
                        !.at = "", !.k = 0, !.earlier = TRUE]
    /\ UNCHANGED <<file, cursor, wbuf, script, orig, last, calls>>

\* the Script is dropped between calls: the BufWriter flushes
Drop ==
    /\ script.open
    /\ pc.phase \in {"idle", "returned"}
    /\ file' = WriteAt(file, cursor, wbuf)
    /\ cursor' = cursor + Len(wbuf)
    /\ wbuf' = <<>>
    /\ script' = Closed
    /\ pc' = [pc EXCEPT !.phase = "dropped"]
    /\ UNCHANGED <<orig, last, calls>>

\* the process is stopped while the call is under way: what the BufWriter
\* holds is lost and the file stays as it is
Interrupt ==
    /\ pc.phase \in {"read", "heap", "table"}
    /\ wbuf' = <<>>
    /\ pc' = [pc EXCEPT !.phase = "interrupted", !.at = pc.phase]
    /\ UNCHANGED <<file, cursor, script, orig, last, calls>>

StepInit ==
    /\ file \in Files
    /\ orig = file
    /\ cursor = 0 /\ wbuf = <<>> /\ script = Closed /\ last = NoOp /\ calls = 0
    /\ CodecIdle
    /\ IndexIdle
    /\ ToolIdle
    /\ StepIdle

StepNext ==
    \/ Open /\ UNCHANGED <<codecVars, indexVars, toolVars, stepVars>>
    \/ (\E changes \in StepChangeSets : Begin(changes))
          /\ UNCHANGED <<codecVars, indexVars, toolVars>>
    \/ Materialize /\ UNCHANGED <<codecVars, indexVars, toolVars>>
    \/ SeekHeap /\ UNCHANGED <<codecVars, indexVars, toolVars>>
    \/ WriteLine /\ UNCHANGED <<codecVars, indexVars, toolVars>>
    \/ SeekTable /\ UNCHANGED <<codecVars, indexVars, toolVars>>
    \/ WriteOffset /\ UNCHANGED <<codecVars, indexVars, toolVars>>
    \/ Return /\ UNCHANGED <<codecVars, indexVars, toolVars>>
    \/ Drop /\ UNCHANGED <<codecVars, indexVars, toolVars>>
    \/ Interrupt /\ UNCHANGED <<codecVars, indexVars, toolVars>>

StepSpec == StepInit /\ [][StepNext]_vars

----------------------------------------------------------------------------
(* What the claims about the container speak of.                           *)

\* the container's slot count and the heap start, as the file first had them
OrigTableStart == ReadLE32(orig, 4)
OrigTableEnd == ReadLE32(orig, 8)
OrigCount == (OrigTableEnd - OrigTableStart) \div 4
\* (a file without slots has no heap: every byte of it is "before the heap")
OrigHeapStart == IF OrigCount = 0 THEN Len(orig) ELSE ReadLE32(orig, OrigTableStart)

\* a replace_strings call on a container with at least one slot just returned Ok
ReplacedOk ==
    /\ last.op = "replace" /\ last.ok
    /\ Count(script.string_index) >= 1

\* the bytes slot i (0-based) of the container held in file f
SlotBytes(f, i) ==
    LET h == Get(script.string_index, i) IN SubSeq(f, h.start + 1, h.end)

\* buffer[i] of the last call: the new bytes of a changed slot, the bytes the
\* slot held in the file before the call otherwise
Buffers ==
    [k \in 1..Count(script.string_index) |->
        IF (k - 1) \in DOMAIN last.changes THEN last.changes[k - 1]
        ELSE SlotBytes(last.before, k - 1)]

\* the offsets the last call handed to its writer for the table
WrittenOffsets == ReadStrOffsets(wbuf)

\* C1 (as claimed): after a successful replace_strings on a container with at
\* least one slot, the file from the original heap start on is exactly the
\* concatenation, in slot order, of changes[i] for the changed slots and of the
\* slot's previous bytes for the others.
C1_HeapIsConcatenation ==
    ReplacedOk =>
        SubSeq(file, OrigHeapStart + 1, Len(file)) = Flatten(Buffers)

\* C2 (as claimed): after a successful replace_strings the in-memory
\* StringIndex is regenerated: its offsets are the offsets just written for the
\* table and its end offset is the new end of the heap.
C2_IndexRegenerated ==
    ReplacedOk =>
        /\ script.string_index.offsets = WrittenOffsets
        /\ script.string_index.eof = OrigHeapStart + SumLen(Buffers)

C4_HeapEndsFile ==
    ReplacedOk => Len(file) - OrigHeapStart = SumLen(Buffers)

----------------------------------------------------------------------------
(* What the claims about the token codec speak of.                         *)

\* a token has been encoded and the sink's bytes (and what follows) decoded
RoundTripped == tok # NoTok /\ enc.done /\ dec.done

\* an opcode byte: what ends a text run and what peek_op consumes
IsOpByte(b) == b < 128 \/ b = 255

\* the tokens decode can return: a Text of one or more code units whose high
\* bytes are 0x80..0xFE, a Color/Eval whose Expr is one whole expression
\* (tokens, then the 0x00 terminator as its last byte), any other variant
Decodable(t) ==
    CASE t.tag = "Text" ->
            /\ Len(t.data) >= 1
            /\ \A k \in 1..Len(t.data) : (t.data[k] \div 256) \in 128..254
      [] t.tag \in ExprTags -> ExprEnd(t.data, 0) = Len(t.data)
      [] OTHER -> TRUE

\* C6 (as claimed): for every constructible token t, decode applied to the
\* bytes written by t.encode succeeds and returns a token equal to t.
C6_TokenRoundTrip ==
    (RoundTripped /\ follow = <<>>) => (dec.res.ok /\ dec.res.tk = tok)

\* C6 (amended): for every token t that decode can return, decoding the bytes
\* t.encode wrote, followed by any bytes r, returns t and leaves r, where for a
\* Text token r must begin with an opcode byte (below 0x80 or 0xFF); decoding
\* an encoded Text token with nothing after it fails with ExpectedMoreInput.
C6_DecodableRoundTrip ==
    (RoundTripped /\ Decodable(tok)) =>
        IF tok.tag # "Text" \/ (follow # <<>> /\ IsOpByte(follow[1]))
        THEN dec.res.ok /\ dec.res.tk = tok /\ dec.res.rem = follow
        ELSE follow = <<>> => (~dec.res.ok /\ dec.res.err = "ExpectedMoreInput")

\* C6 witness: the parse_expr test's expression in an Eval token, and a
\* followed Text token, have made the round trip
C6_Witness ==
    /\ RoundTripped /\ Decodable(tok) /\ dec.res.ok
    /\ \/ tok = WithExpr("Eval", TestExpr)
       \/ tok.tag = "Text" /\ Len(tok.data) = 2 /\ follow = <<255>>

\* the index of the first None among the items, 0 if there is none yet
FirstNone ==
    IF \E k \in 1..Len(items) : items[k].kind = "None"
    THEN CHOOSE k \in 1..Len(items) :
            /\ items[k].kind = "None"
            /\ \A j \in 1..(k - 1) : items[j].kind # "None"
    ELSE 0

\* the iteration of the buffer came to its end (the first None) without error
IteratedOk ==
    /\ tok = NoTok
    /\ FirstNone > 0
    /\ \A j \in 1..(FirstNone - 1) : items[j].kind = "Ok"

RECURSIVE EncodeAll(_)
\* encode() of each token of a sequence of Ok items, concatenated
EncodeAll(its) ==
    IF its = <<>> THEN <<>> ELSE Encode(Head(its).tk) \o EncodeAll(Tail(its))

\* encode() of the tokens the iteration yielded before its first None
Emitted == EncodeAll(SubSeq(items, 1, FirstNone - 1))

\* C7: for a buffer whose iteration decodes without error, the concatenated
\* encode() of the yielded tokens is the buffer up to, not including, the
\* first Terminator: it is a prefix of the buffer that is followed by the
\* 0xFF the iterator stopped at, or is the whole buffer when there is none.
C7_BufferRoundTrip ==
    IteratedOk =>
        /\ Len(Emitted) <= Len(buf)
        /\ Emitted = SubSeq(buf, 1, Len(Emitted))
        /\ IF items[FirstNone].term
           THEN Len(Emitted) < Len(buf) /\ buf[Len(Emitted) + 1] = 255
           ELSE Emitted = buf

\* C7 witness: a FontSize token whose payload holds a 0xFF byte was yielded,
\* then the Terminator was reached, and bytes follow the Terminator
C7_Witness ==
    /\ IteratedOk
    /\ items[FirstNone].term
    /\ Len(buf) > Len(Emitted) + 1
    /\ \E j \in 1..(FirstNone - 1) :
          items[j].tk.tag = "FontSize" /\ items[j].tk.val % 256 = 255

\* C8 (as claimed): the iterator never yields Terminator, and once it has
\* reached the first Terminator of the buffer it yields no further item.
C8_TerminatorEnds ==
    tok = NoTok =>
        /\ \A k \in 1..Len(items) : items[k].tk.tag # "Terminator"
        /\ \A j, k \in 1..Len(items) :
              (j < k /\ items[j].term) => items[k].kind = "None"

\* C9 (as claimed): repeated next() returns None after finitely many calls
\* (each item consumes at least one byte, so within Len(buf) + 1 calls), and
\* iteration stops at the first decode error: the call after an Err item
\* returns None.
C9_IterationFinite ==
    tok = NoTok =>
        /\ Len(items) > Len(buf) => FirstNone > 0
        /\ \A k \in 1..(Len(items) - 1) :
              items[k].kind = "Err" => items[k + 1].kind = "None"

\* the opcodes of the table
Opcodes == {0, 1, 2, 3, 4, 8, 9, 10, 11, 12, 14, 15, 17, 18, 19, 21, 24, 25, 26, 30}

\* C10: decode of an input whose first byte b is below 0x80 and not an opcode
\* of the table fails with UnrecognizedInstr(b), whatever follows.
C10_UnrecognizedInstr ==
    (tok = NoTok /\ dec.done /\ buf # <<>> /\ buf[1] < 128 /\ buf[1] \notin Opcodes) =>
        /\ ~dec.res.ok
        /\ dec.res.err = "UnrecognizedInstr"
        /\ dec.res.op = buf[1]

\* C10 witness: 0x7F followed by the two bytes of a text code unit was decoded
C10_Witness ==
    /\ tok = NoTok /\ dec.done /\ ~dec.res.ok
    /\ buf = <<127, 128, 65>>

----------------------------------------------------------------------------
(* What the claim about Expr::parse speaks of.                             *)

\* the length of the expr token that starts with byte b, as the claim gives
\* it: 2 below 0x80; otherwise 1, 2, 3, 4 for the buckets 0x80, 0xA0, 0xC0,
\* 0xE0, and one trailing byte
ExprTokenLen(b) ==
    IF b < 128 THEN 2
    ELSE 1 + (CASE b \in 128..159 -> 1
                [] b \in 160..191 -> 2
                [] b \in 192..223 -> 3
                [] b \in 224..255 -> 4)

RECURSIVE IsExprSpan(_)
\* s is zero or more expr tokens followed by one 0x00 byte, and nothing more
IsExprSpan(s) ==
    \/ s = <<0>>
    \/ /\ s # <<>>
       /\ Len(s) > ExprTokenLen(s[1])
       /\ IsExprSpan(SubSeq(s, ExprTokenLen(s[1]) + 1, Len(s)))

\* the lengths of the prefixes of i that are such spans
ExprSpans(i) == {e \in 1..Len(i) : IsExprSpan(SubSeq(i, 1, e))}

\* C11: Expr::parse on input i succeeds exactly when i starts with zero or
\* more expr tokens followed by a 0x00 byte; the returned Expr is that span
\* verbatim (the first such span of i), its last byte is the 0x00 terminator,
\* and the remaining input is everything after it.
C11_ExprGrammar ==
    ex.done =>
        /\ ex.res.ok <=> ExprSpans(buf) # {}
        /\ ex.res.ok =>
              /\ Len(ex.res.span) \in ExprSpans(buf)
              /\ \A e \in ExprSpans(buf) : Len(ex.res.span) <= e
              /\ ex.res.span = SubSeq(buf, 1, Len(ex.res.span))
              /\ ex.res.span[Len(ex.res.span)] = 0
              /\ ex.res.rem = SubSeq(buf, Len(ex.res.span) + 1, Len(buf))

\* C11 witness: the parse_expr test's 10-byte vector, followed by two more
\* bytes, parsed to itself and left the two bytes
C11_Witness ==
    /\ ex.done /\ ex.res.ok
    /\ buf = TestExpr \o <<7, 0>>
    /\ ex.res.span = TestExpr
    /\ ex.res.rem = <<7, 0>>

----------------------------------------------------------------------------
(* What the claim about Script::open speaks of.                            *)

\* the table range of the header of file f, and its length in bytes
HeaderStart(f) == ReadLE32(f, 4)
HeaderEnd(f) == ReadLE32(f, 8)
HeaderLen(f) == IF HeaderEnd(f) > HeaderStart(f) THEN HeaderEnd(f) - HeaderStart(f) ELSE 0

\* C12 (as claimed): Script::open parses all end - start bytes of the table
\* range as little-endian u32 offsets: when those bytes are not a sequence of
\* whole u32 it fails with CorruptedFile, and a container it returns has a slot
\* list that accounts for every byte of the range, none omitted or misread.
C12_OpenParsesWholeTable ==
    (last.op = "open" /\ Len(file) >= 12 /\ SubSeq(file, 1, 4) = Magic
        /\ HeaderStart(file) + HeaderLen(file) <= Len(file)) =>
        IF HeaderLen(file) % 4 # 0
        THEN ~last.ok /\ last.err = "CorruptedFile"
        ELSE /\ last.ok
             /\ TableBytes(script.string_index.offsets)
                  = SubSeq(file, HeaderStart(file) + 1, HeaderStart(file) + HeaderLen(file))

----------------------------------------------------------------------------
(* What the claim about StringIndex speaks of.                             *)

\* the range of slot i (0-based) of an index of n offsets, as the claim gives
\* it: [offsets[i], offsets[i+1]) for i < n-1, [offsets[n-1], eof) for i = n-1
SlotRange(si, i) ==
    [some |-> TRUE,
     start |-> si.offsets[i + 1],
     end |-> IF i + 1 = Len(si.offsets) THEN si.eof ELSE si.offsets[i + 2]]

\* C13: get(i) returns the range of slot i for every i < n and None for every
\* i >= n; iterating the index yields exactly the n slot ranges in slot
\* order, and None from then on.
C13_IndexRanges ==
    LET si == script.string_index
        n == Len(si.offsets)
    IN  /\ got.done =>
              got.h = IF got.index < n THEN SlotRange(si, got.index) ELSE NoHandle
        /\ \A k \in 1..Len(iter.yielded) :
              iter.yielded[k] = IF k <= n THEN SlotRange(si, k - 1) ELSE NoHandle
        /\ iter.pos = IF Len(iter.yielded) < n THEN Len(iter.yielded) ELSE n

\* C13 witness: the index with offsets [28, 32] was iterated to its end (slot
\* 0 = 28..32, slot 1 = 32..eof, then None) and get(1) was called
C13_Witness ==
    /\ script.string_index.offsets = <<28, 32>>
    /\ Len(iter.yielded) = 3
    /\ iter.yielded[1] = [some |-> TRUE, start |-> 28, end |-> 32]
    /\ iter.yielded[2] = [some |-> TRUE, start |-> 32, end |-> script.string_index.eof]
    /\ ~iter.yielded[3].some
    /\ got.done /\ got.index = 1 /\ got.h = iter.yielded[2]

----------------------------------------------------------------------------
(* What the claim about game-definition construction speaks of.            *)

\* the Private-Use-Area codepoints that lines of compound_chars.map of entry k
\* reference and that charset.utf8 of entry k does not hold
AbsentPua(k) ==
    {c \in PuaStart..(PuaStart + MaxPuaRange) :
        /\ \E m \in 1..Len(games[k].mappings) :
              games[k].mappings[m].lo <= c /\ c <= games[k].mappings[m].hi
        /\ c \notin {games[k].charset[i] : i \in 1..Len(games[k].charset)}}

\* C15: when the compound table of some game references a Private-Use-Area
\* codepoint absent from its charset, construction yields no GameDef and
\* stops startup with a panic, whose report names the first such game and
\* every one of its missing codepoints.
C15_MissingPuaPanics ==
    (startup.state # "init" /\ \E k \in 1..Len(games) : AbsentPua(k) # {}) =>
        LET k == SetMin({j \in 1..Len(games) : AbsentPua(j) # {}}) IN
        /\ startup.state = "panicked"
        /\ startup.defs = <<>>
        /\ startup.report.full_name = GameName(k)
        /\ {startup.report.chars[i] : i \in 1..Len(startup.report.chars)} = AbsentPua(k)

\* C15 witness: startup panicked over a game whose compound table references
\* more than one codepoint absent from the charset, after a game without fault
C15_Witness ==
    /\ startup.state = "panicked"
    /\ Len(games) >= 2
    /\ AbsentPua(1) = {}
    /\ Cardinality(AbsentPua(2)) >= 2
    /\ Len(startup.report.chars) >= 2

----------------------------------------------------------------------------
(* What the claim about the equivalence check speaks of.                   *)

\* the game definition the check was called with
EqGameDef == startup.defs[1]

\* the character a code unit of the script's text run stands for
UnitChar(u) == EqGameDef.charset[CodePos(u) + 1]

\* equivalent was called on a text run and a text segment, every code unit of
\* the run is a character of the charset, and no character of either side is
\* a compound character or on the game's fullwidth blocklist
TextVsText ==
    /\ eq.done
    /\ eq.scr_tk.tag = "Text" /\ eq.txt_seg.kind = "Text"
    /\ \A k \in 1..Len(eq.scr_tk.data) :
          /\ CodePos(eq.scr_tk.data[k]) < Len(EqGameDef.charset)
          /\ UnitChar(eq.scr_tk.data[k]) \notin DOMAIN EqGameDef.compound_chars
          /\ UnitChar(eq.scr_tk.data[k]) \notin EqGameDef.fullwidth_blocklist
    /\ \A k \in 1..Len(eq.txt_seg.str) :
          eq.txt_seg.str[k] \notin EqGameDef.fullwidth_blocklist

\* the characters of the script's text run
ScriptChars == [k \in 1..Len(eq.scr_tk.data) |-> UnitChar(eq.scr_tk.data[k])]

\* a character with its width put aside: the halfwidth character of a
\* fullwidth form U+FF01..U+FF5E, any other character itself
WidthKey(c) == IF c \in 65281..65374 THEN c - 65248 ELSE c

\* two strings differ in nothing but fullwidth versus halfwidth variants
SameUpToWidth(a, b) ==
    /\ Len(a) = Len(b)
    /\ \A k \in 1..Len(a) : WidthKey(a[k]) = WidthKey(b[k])

----------------------------------------------------------------------------
(* What the claim about the replace workflow speaks of.                    *)

\* the slot count of the script file the workflow was run on
RunSlotCount == Count(OpenResult(run.before).script.string_index)

\* replace_text ran on a script file that opens, with a text file whose line
\* count differs from the script's slot count
LineCountDiffers ==
    /\ run.done
    /\ OpenResult(run.before).err = ""
    /\ Len(txt) # RunSlotCount

\* the pairs of slot and line there are: as many as the shorter side has
RunPairs == IF Len(txt) < RunSlotCount THEN Len(txt) ELSE RunSlotCount

\* the i-th pair (0-based) of slot and line can be read and compared
PairPasses(i) ==
    /\ ReadString(run.before, Get(OpenResult(run.before).script.string_index, i)).ok
    /\ txt[i + 1].valid
    /\ CompareTokens(ReadString(run.before,
                                Get(OpenResult(run.before).script.string_index, i)).bytes,
                     txt[i + 1].segs, 1, startup.defs[1], run.keep_fullwidth_chars).err = ""

\* C14 (as claimed): when the text file's line count differs from the slot
\* count, replace_text fails with the line-count-mismatch error before any
\* write: replace_strings is not invoked and the script file is unchanged.
C14_MismatchError ==
    LineCountDiffers =>
        /\ run.err = "LineCountMismatch"
        /\ ~run.invoked
        /\ file = run.before

\* C14 (amended): when the text file's line count differs from the slot
\* count, replace_text fails before any write: replace_strings is not invoked
\* and the script file is unchanged.  The error is the line-count mismatch
\* when every pair of slot and line before the missing one can be read and
\* compared, and otherwise the error of the first pair that cannot.
C14_MismatchNeverWrites ==
    LineCountDiffers =>
        /\ run.err # ""
        /\ ~run.invoked
        /\ file = run.before
        /\ IF \A i \in 0..(RunPairs - 1) : PairPasses(i)
           THEN run.err = "LineCountMismatch"
           ELSE /\ run.err # "LineCountMismatch"
                /\ ~PairPasses(run.line)
                /\ \A i \in 0..(run.line - 1) : PairPasses(i)

\* C14 witness: a script of two slots and a text file of one line, which
\* differs from slot 0: the run failed with the line-count mismatch
C14_Witness ==
    /\ LineCountDiffers
    /\ RunSlotCount = 2 /\ Len(txt) = 1
    /\ txt[1] = TextLine(<<TextSegment(<<65>>)>>)
    /\ SubSeq(run.before, Len(run.before) - 5, Len(run.before)) = <<128, 1, 255, 128, 0, 255>>
    /\ run.err = "LineCountMismatch"

----------------------------------------------------------------------------
(* What the claim about the order of steps in replace_strings speaks of.   *)

\* where the call under way is, or was when the process was stopped
CallAt == IF pc.phase = "interrupted" THEN pc.at ELSE pc.phase

\* the new heap is in the file: from slot 0's offset on, the file holds the
\* concatenation of all the lines of the call
HeapIsNew ==
    /\ Count(script.string_index) > 0
    /\ Len(pc.lines) = Count(script.string_index)
    /\ LET heap_start == Get(script.string_index, 0).start
           heap == Flatten(pc.lines)
       IN  /\ heap_start + Len(heap) <= Len(file)
           /\ SubSeq(file, heap_start + 1, heap_start + Len(heap)) = heap

\* the offset table in the file is the old one: what the table held when
\* the call began to write.  In a first call that is the table from before
\* the call; in a later call the first seek has put there first what the
\* earlier call left in the BufWriter
TableIsOld ==
    /\ TableRegion(file) = pc.old_table
    /\ ~pc.earlier => pc.old_table = TableRegion(pc.before)

\* C17: within one replace_strings call, no byte is written while the slots
\* are read; no offset-table entry is written until all heap bytes are
\* written; and when table entries are written the whole new heap is in the
\* file.  So wherever the call is stopped, the table is still entirely the
\* old one or the heap is already entirely the new one.
C17_ReadsHeapTable ==
    /\ CallAt = "read" => file = pc.before
    /\ CallAt = "heap" => TableIsOld
    /\ CallAt = "table" => HeapIsNew
    /\ CallAt \in {"read", "heap", "table"} => (TableIsOld \/ HeapIsNew)

\* C17 witness: a call that moves the second slot of a two-slot container
\* was stopped while it wrote the offset table: the heap in the file is the
\* new one and the table in the file is still the old one, whose second
\* entry is not the offset the call computed
C17_Witness ==
    /\ pc.phase = "interrupted" /\ pc.at = "table"
    /\ Count(script.string_index) = 2
    /\ file # pc.before
    /\ HeapIsNew
    /\ TableIsOld
    /\ pc.old_table # WriteOffsets(pc.offsets)

====
